---- MODULE Spec2Model ----
(***************************************************************************)
(* Server side of the request/response pipeline of Euregan/valentin:       *)
(* the legacy (pages router) endpoint helpers handle, visitor and          *)
(* authentifiedGenerator of src/next/legacy/endpoint.ts and the app router *)
(* helpers visitor and authentified of src/next/app/endpoint.ts.           *)
(*                                                                         *)
(* One endpoint registration (cfg) is fixed at construction; the server    *)
(* then serves a bounded number of requests, one at a time.  Every await   *)
(* of the code is a step of the model (pc).  This is Spec.                 *)
(*                                                                         *)
(* HooksSpec is one instance of the client hooks useQuery / useMutation of *)
(* src/next/api.ts, and FormSpec one form of useForm / createFormHook of   *)
(* src/form.ts.  Both keep the useState cells apart from the values the    *)
(* last render captured, which is what the callbacks of the code read.     *)
(***************************************************************************)
EXTENDS Integers, FiniteSets, Sequences, TLC

VARIABLES
  cfg,          \* the endpoint registration (fixed at construction)
  pc,           \* position of the request being served
  served,       \* number of requests completed so far
  req,          \* the request being served
  user,         \* authentifiedGenerator / authentified: the local `user`
  candidate,    \* visitor: the object handed to validator.safeParse
  behaviour,    \* what the handler did when it was invoked
  handlerArgs,  \* the (user, payload) the handler was invoked with
  result,       \* what the endpoint wrapper produced (a Result, or a throw)
  response,     \* the HTTP response produced for the request
  sent,         \* number of responses produced for the request
  logged,       \* what console.error received for the request
  trace,        \* the calls made for the request, in order, with outcomes
  hook,         \* client: which hook the component uses
  target,       \* client: the url the component gave at its last render
  state,        \* client: the hook's useState cells (loading, error, data)
  view,         \* client: the cells as the last render read them
  inflight,     \* client: transport calls not yet settled, per url
  invoked,      \* client: number of times `call` was run
  transportCalls, \* client: number of api(...) calls issued
  redirects,    \* client: number of router.push("/signin")
  unauthorized, \* client: number of transport calls that failed with 401
  refused,      \* client: number of calls refused by the loading guard
  last,         \* client: the call settled last, with its promise
  effects,      \* client: what the last step of `call` did, in order
  formHook,     \* form: which form hook the component uses
  initialData,  \* form: the initialData the hook was given
  form,         \* form: the useState cells (data, errors, submitting,
                \*       submitError)
  formView,     \* form: the cells as the last render read them
  pending,      \* form: onSubmit promises not yet settled
  submitted,    \* form: the data onSubmit was called with, in order
  lastChange,   \* form: per field, the value of its last onChange call
  changes       \* form: number of onChange calls

serverVars == <<cfg, pc, served, req, user, candidate, behaviour,
                handlerArgs, result, response, sent, logged, trace>>

clientVars == <<hook, target, state, view, inflight, invoked, transportCalls,
                redirects, unauthorized, refused, last, effects>>

formVars == <<formHook, initialData, form, formView, pending, submitted,
              lastChange, changes>>

vars == <<serverVars, clientVars, formVars>>

\* Number of requests served in one behaviour.
MaxRequests == 2

----------------------------------------------------------------------------
(* JavaScript values *)

Undefined == "undefined"
Null == "null"

\* JavaScript truthiness of the strings and absent values that occur here.
Truthy(v) == v \notin {Undefined, Null, ""}

\* The empty object {}.
EmptyObj == [k \in {} |-> ""]

\* Object spread {...a, ...b}: the keys of both, b winning on a collision.
Spread(a, b) ==
  [k \in (DOMAIN a) \cup (DOMAIN b) |-> IF k \in DOMAIN b THEN b[k] ELSE a[k]]

----------------------------------------------------------------------------
(* Requests and registrations *)

Variants == {"legacy", "app"}
Wrappers == {"visitor", "authentified"}
Verbs == {"GET", "POST", "PUT", "DELETE"}
Methods == Verbs \cup {"PATCH"}

\* The verbs an Endpoints object may have a handler for.
Registrations == {{}, {"GET"}, {"GET", "POST"}, {"PUT", "DELETE"}}

\* The jwt cookie: absent, empty, a token that decodes, a token that does not.
Cookies == {Undefined, "", "validJwt", "expiredJwt"}

\* The authorization header: absent, another scheme, Bearer with a key.
Authorizations == {Undefined, "Basic abc", "Bearer k1"}

\* JSON objects over the keys the schema knows; each part of a request puts
\* its own value on a key, so that the winner of a collision shows.
Keys == {"id", "name"}
ObjectsOf(keys, v) == {[k \in d |-> v] : d \in SUBSET keys}
Bodies == ObjectsOf(Keys, "a")
Searches == ObjectsOf(Keys, "5")
RouteParams == ObjectsOf({"id"}, "9")

Requests ==
  [method : Methods, cookie : Cookies, authorization : Authorizations,
   body : Bodies, search : Searches, params : RouteParams]

\* An endpoint registration: which helper file, which wrapper around the
\* handler, whether a validator and an updateApiKeyUsage were given, and
\* (legacy) the verbs given to handle.  The app router calls the exported
\* wrapper itself, and app authentified takes no lookup and no usage tracker.
Configs ==
  {c \in [variant : Variants, wrapper : Wrappers, validator : BOOLEAN,
          track : BOOLEAN, endpoints : Registrations] :
     /\ c.variant = "app" => c.endpoints = {"GET"} /\ ~c.track
     /\ c.wrapper = "visitor" => ~c.track}

NoRequest ==
  [method |-> "GET", cookie |-> Undefined, authorization |-> Undefined,
   body |-> EmptyObj, search |-> EmptyObj, params |-> EmptyObj]

----------------------------------------------------------------------------
(* Result and Error *)

Ok(data) == [tag |-> "ok", data |-> data]
Err(code, message) ==
  [tag |-> "err", error |-> [code |-> code, message |-> message]]
Thrown(error) == [tag |-> "thrown", error |-> error]
NoResult == [tag |-> "none"]

SessionExpired == Err(401, "Your session has expired. Please signin again.")
AuthentificationError == Err(401, "An error occured during authentification.")
NoAuthentification == Err(401, "Please provide a mean of authentification.")

\* What a handler may do when invoked: return a promise of Ok or of Err,
\* throw synchronously, or return a promise that rejects.
HandlerResults ==
  {Ok([id |-> 1]), Ok([id |-> 2]),
   Err(403, "Forbidden"), Err(404, "Not found")}
HandlerBehaviours ==
  {[kind |-> "returns", value |-> r] : r \in HandlerResults}
    \cup {[kind |-> "throws"], [kind |-> "rejects"]}

\* The error the injected lookup or usage tracker throws.
RawLookupError == "connect ECONNREFUSED 10.0.0.5:5432"
RawTrackError == "UPDATE api_keys failed"
RawHandlerError == "TypeError: cannot read properties of undefined"
RawJwtError == "TokenExpiredError: jwt expired"

----------------------------------------------------------------------------
(* The pieces of the wrappers *)

\* String.prototype.split("Bearer ") on the headers that occur: the pieces
\* around each occurrence of the separator.
SplitBearer(header) ==
  CASE header = "Bearer k1" -> <<"", "k1">>
    [] OTHER -> <<header>>

\* authorization && authorization.split("Bearer ")[1]
\* (app: headers.has("authorization") && headers.get(...).split(...)[1]).
ApiKeyOf(request) ==
  IF request.authorization = Undefined
    THEN Undefined
    ELSE IF Len(SplitBearer(request.authorization)) >= 2
           THEN SplitBearer(request.authorization)[2]
           ELSE Undefined

\* Whether `token` is truthy.  legacy: request.cookies["jwt"], the cookie's
\* string; app: request.cookies.get("jwt"), an object as soon as the cookie
\* is there, whatever its value.
HasToken(variant, request) ==
  IF variant = "legacy"
    THEN Truthy(request.cookie)
    ELSE request.cookie # Undefined

SessionUser == "sessionUser"
KeyUser == "keyUser"

\* jwt.read: the decoded identity, or a throw when the token does not decode.
JwtRead(token) ==
  IF token = "validJwt"
    THEN [ok |-> TRUE, user |-> SessionUser]
    ELSE [ok |-> FALSE, user |-> Undefined]

\* request.query of a pages-router request: the search parameters with the
\* route parameters of the page written over them.
LegacyQuery(request) == Spread(request.search, request.params)

\* What spreading request.body contributes.  legacy: the parsed JSON body.
\* app: request.body of a NextRequest is a ReadableStream (or null), which
\* has no own enumerable string key.
SpreadOfBody(variant, request) ==
  IF variant = "legacy" THEN request.body ELSE EmptyObj

\* The object given to validator.safeParse.
Candidate(variant, request) ==
  IF variant = "legacy"
    THEN Spread(SpreadOfBody(variant, request), LegacyQuery(request))
    ELSE Spread(Spread(SpreadOfBody(variant, request), request.search),
                request.params)

\* validation.error.message of the schema z.object({id, name}): one issue
\* per missing key.
ZodMessage(object) ==
  CASE Keys \ DOMAIN object = {"id"} -> "[{path:[id],message:Required}]"
    [] Keys \ DOMAIN object = {"name"} -> "[{path:[name],message:Required}]"
    [] OTHER -> "[{path:[id],message:Required},{path:[name],message:Required}]"

\* validator.safeParse for the schema z.object({id: z.string(), name:
\* z.string()}): succeeds when both keys are there, with the known keys as data.
SafeParse(object) ==
  IF Keys \subseteq DOMAIN object
    THEN [success |-> TRUE, data |-> [k \in Keys |-> object[k]]]
    ELSE [success |-> FALSE, message |-> ZodMessage(object)]

\* Result.unwrap(onOk, onErr): the value of the first function on Ok, of the
\* second on Err.
Unwrap(res, whenOk, whenErr) == IF res.tag = "ok" THEN whenOk ELSE whenErr

NoResponse == [status |-> 0, body |-> EmptyObj]
Uncaught == [status |-> -1, body |-> EmptyObj]

\* response.status(code).json(body) and new Response(JSON.stringify(body),
\* {status}): JSON.stringify keeps the own keys of a plain object of strings
\* and numbers, which are the bodies that occur here.
Json(status, body) == [status |-> status, body |-> body]

\* resultToResponse without the error's status on the Err side.
resultToResponseNoStatus(res) ==
  LET onOk(data) == Json(200, data)
      onErr(error) == Json(200, [message |-> error.message])
  IN Unwrap(res, onOk(res.data), onErr(res.error))

\* resultToResponse (both files).
resultToResponse(res) ==
  LET onOk(data) == Json(200, data)
      onErr(error) == Json(error.code, [message |-> error.message])
  IN Unwrap(res, onOk(res.data), onErr(res.error))

----------------------------------------------------------------------------
(* The decisions of the wrappers, as functions of what they read *)

Goto(next, res, usr) == [next |-> next, result |-> res, user |-> usr]

\* Authentify without the no-credential check and the final `!user` check:
\* a request without credentials goes on to visitor as an anonymous one.
AuthentifyAnonymous(variant, request) ==
  IF ~HasToken(variant, request) /\ ~Truthy(ApiKeyOf(request))
    THEN Goto("visitor", NoResult, Null)
    ELSE IF HasToken(variant, request)
      THEN IF JwtRead(request.cookie).ok
             THEN Goto("visitor", NoResult, JwtRead(request.cookie).user)
             ELSE Goto("respond", SessionExpired, Null)
      ELSE IF variant = "legacy"
             THEN Goto("lookup", NoResult, Null)
             ELSE Goto("respond", NoAuthentification, Null)

\* Authentify trying the api key when the session credential does not decode.
AuthentifyKeyFallback(variant, request) ==
  IF ~HasToken(variant, request) /\ ~Truthy(ApiKeyOf(request))
    THEN Goto("respond", SessionExpired, Null)
    ELSE IF HasToken(variant, request) /\ JwtRead(request.cookie).ok
      THEN Goto("visitor", NoResult, JwtRead(request.cookie).user)
      ELSE IF Truthy(ApiKeyOf(request)) /\ variant = "legacy"
             THEN Goto("lookup", NoResult, Null)
             ELSE Goto("respond", SessionExpired, Null)

\* authentifiedGenerator / authentified up to the first await: the
\* no-credential check, then the session credential if there is one, then
\* (legacy) the api key lookup or (app) no user at all.
Authentify(variant, request) ==
  IF ~HasToken(variant, request) /\ ~Truthy(ApiKeyOf(request))
    THEN Goto("respond", SessionExpired, Null)
    ELSE IF HasToken(variant, request)
      THEN IF JwtRead(request.cookie).ok
             THEN Goto("visitor", NoResult, JwtRead(request.cookie).user)
             ELSE Goto("respond", SessionExpired, Null)
      ELSE IF variant = "legacy"
             THEN Goto("lookup", NoResult, Null)
             ELSE Goto("respond", NoAuthentification, Null)

\* AfterLookup answering with the message of the error the lookup threw.
AfterLookupLeaks(outcome, track) ==
  CASE outcome = "throws" ->
         Goto("respond", Err(401, "connect ECONNREFUSED 10.0.0.5:5432"), Null)
    [] outcome = "null" -> Goto("respond", NoAuthentification, Null)
    [] OTHER -> Goto(IF track THEN "track" ELSE "visitor", NoResult, "keyUser")

\* After `await findUserFromApiKey(apiKey)`: a user goes on to the usage
\* tracker when one is registered, no user is the missing-authentification
\* error, a throw is caught by the inner catch.
LookupOutcomes == {"user", "null", "throws"}
AfterLookup(outcome, track) ==
  CASE outcome = "throws" -> Goto("respond", AuthentificationError, Null)
    [] outcome = "null" -> Goto("respond", NoAuthentification, Null)
    [] OTHER -> Goto(IF track THEN "track" ELSE "visitor", NoResult, KeyUser)

\* After `await updateApiKeyUsage(apiKey)`, inside the same inner try.
TrackOutcomes == {"ok", "throws"}
AfterTrack(outcome, usr) ==
  IF outcome = "throws"
    THEN Goto("respond", AuthentificationError, usr)
    ELSE Goto("visitor", NoResult, usr)

UndefinedPayload == [undefined |-> TRUE]

\* Validate going on with the unparsed object when safeParse fails.
ValidateLenient(variant, validator, request) ==
  IF ~validator
    THEN [success |-> TRUE, payload |-> [undefined |-> TRUE],
          error |-> NoResult]
    ELSE [success |-> TRUE, payload |-> Candidate(variant, request),
          error |-> NoResult]

\* visitor, the validation: without a validator the payload stays undefined;
\* with one, the parsed data or the 400 error.
Validate(variant, validator, request) ==
  IF ~validator
    THEN [success |-> TRUE, payload |-> UndefinedPayload, error |-> NoResult]
    ELSE IF SafeParse(Candidate(variant, request)).success
      THEN [success |-> TRUE,
            payload |-> SafeParse(Candidate(variant, request)).data,
            error |-> NoResult]
      ELSE [success |-> FALSE, payload |-> UndefinedPayload,
            error |-> Err(400, SafeParse(Candidate(variant, request)).message)]

\* visitor: const user = token ? jwt.read(token) : undefined
VisitorUser(variant, request) ==
  IF HasToken(variant, request)
    THEN JwtRead(request.cookie)
    ELSE [ok |-> TRUE, user |-> Undefined]

\* Where an exception thrown synchronously inside visitor(...)(request) ends.
\* legacy authentifiedGenerator calls visitor inside its try, so its catch
\* answers with the session error; legacy visitor lets it reach handle; the
\* app visitor is async, so the throw is a rejection that the `return
\* visitor(...)` of authentified (no await) passes on.
ThrowInVisitor(variant, wrapper, error) ==
  IF variant = "legacy" /\ wrapper = "authentified"
    THEN SessionExpired
    ELSE Thrown(error)

\* HasEndpoint falling back on whatever handler is registered.
HasEndpointFallback(method, endpoints) == endpoints # {}

\* handle: whether the request's verb has a handler.
HasEndpoint(method, endpoints) ==
  CASE method = "GET" -> "GET" \in endpoints
    [] method = "POST" -> "POST" \in endpoints
    [] method = "PUT" -> "PUT" \in endpoints
    [] method = "DELETE" -> "DELETE" \in endpoints
    [] OTHER -> FALSE

WrongMethod == Json(405, [message |-> "Wrong method"])
SomethingWrong == Json(500, [message |-> "Something wrong happened"])

\* The response for what the wrapper produced.  legacy: handle serializes a
\* Result and its catch turns a throw or a rejection into the 500.  app: the
\* wrapper serializes its Result itself; a rejection leaves the helpers
\* without a Response.
ResponseFor(variant, res) ==
  IF res.tag = "thrown"
    THEN IF variant = "legacy" THEN SomethingWrong ELSE Uncaught
    ELSE resultToResponse(res)

----------------------------------------------------------------------------------------------------------------------------------------------------------------------------------------------------
(* The client hooks of src/next/api.ts: data *)

\* Number of times `call` is run on one hook instance.
MaxInvokes == 3

Hooks == {"useQuery", "useMutation"}
Urls == {"/api/a", "/api/b"}

\* The Err of api.ts; NullErr stands for the null of an error cell.
NullErr == [status |-> 0, message |-> "null"]
Errors ==
  {[status |-> 401,
    message |-> "Your session has expired. Please signin again."],
   [status |-> 403, message |-> "Forbidden"]}

\* What response.json() gives for a 2xx response: two JSON documents, and
\* the JSON document null.
Datas == {"[{id:1}]", "[{id:2}]", Null}

\* The useState cells right after the first render.
InitialState == [loading |-> FALSE, error |-> NullErr, data |-> Null]

\* The promise `call` returned, once settled.
Resolved(data) == [settled |-> "resolved", error |-> NullErr, data |-> data]
Rejected(error) == [settled |-> "rejected", error |-> error, data |-> Null]

NoCall ==
  [kind |-> "none", url |-> "", error |-> NullErr, data |-> Null,
   promise |-> [settled |-> "pending", error |-> NullErr, data |-> Null]]

\* The outcomes of a transport call: api resolves with the body of a 2xx
\* response, or rejects with {status, message}.
Outcomes ==
  {[ok |-> TRUE, data |-> d, error |-> NullErr] : d \in Datas}
    \cup {[ok |-> FALSE, data |-> Null, error |-> e] : e \in Errors}

NoneInflight == [u \in Urls |-> 0]

----------------------------------------------------------------------------
(* The client hooks: what they compute *)

\* The tuple a render of useQuery returns (without `call`).
useQueryResult(cells) ==
  IF cells.error # NullErr
    THEN [loading |-> FALSE, error |-> cells.error, data |-> Null]
    ELSE IF Truthy(cells.data)
      THEN [loading |-> FALSE, error |-> NullErr, data |-> cells.data]
      ELSE [loading |-> TRUE, error |-> NullErr, data |-> Null]

\* useMutationResult handing out the cells as they are.
useMutationResultRaw(cells) == cells

\* The tuple a render of useMutation returns (without `call`).
useMutationResult(cells) ==
  IF cells.error # NullErr
    THEN [loading |-> FALSE, error |-> cells.error, data |-> Null]
    ELSE IF Truthy(cells.data)
      THEN [loading |-> FALSE, error |-> NullErr, data |-> cells.data]
      ELSE [loading |-> cells.loading, error |-> NullErr, data |-> Null]

\* MutationGuard without the test of loading.
MutationGuardNever(cells) == FALSE

\* useMutation's call: `if (loading) return Promise.reject()`, on the
\* loading the render that made this `call` read.
MutationGuard(cells) == cells.loading

\* What a step of `call` does: the cells after it, the effects in the order
\* of the code, the promise it settles.
Step(cells, done, promise) ==
  [state |-> cells, effects |-> done, promise |-> promise]

\* useQuery: .then((data) => { setData(data); return data; })
QueryThen(cells, data) ==
  Step([cells EXCEPT !.data = data], <<"setData">>, Resolved(data))

\* QueryCatch without the redirect.
QueryCatchNoRedirect(cells, error) ==
  [state |-> [cells EXCEPT !.error = error], effects |-> <<"setError">>,
   promise |-> Rejected(error)]

\* useQuery: .catch((error) => { 401 -> router.push; setError; throw error })
QueryCatch(cells, error) ==
  Step([cells EXCEPT !.error = error],
       (IF error.status = 401 THEN <<"router.push(/signin)">> ELSE <<>>)
          \o <<"setError">>,
       Rejected(error))

\* useMutation: .then((data) => { setData; setLoading(false); return data })
MutationThen(cells, data) ==
  Step([cells EXCEPT !.data = data, !.loading = FALSE],
       <<"setData", "setLoading">>, Resolved(data))

\* MutationCatch without `return Promise.reject(error)`: the promise of the
\* call resolves with undefined.
MutationCatchSwallows(cells, error) ==
  [state |-> [cells EXCEPT !.error = error, !.loading = FALSE],
   effects |-> (IF error.status = 401 THEN <<"router.push(/signin)">>
                                      ELSE <<>>)
                 \o <<"setError", "setLoading">>,
   promise |-> Resolved(Undefined)]

\* useMutation: .catch((error) => { 401 -> router.push; setError;
\* setLoading(false); return Promise.reject(error) })
MutationCatch(cells, error) ==
  Step([cells EXCEPT !.error = error, !.loading = FALSE],
       (IF error.status = 401 THEN <<"router.push(/signin)">> ELSE <<>>)
          \o <<"setError", "setLoading">>,
       Rejected(error))

\* The continuation of a settled transport call.
Settlement(hookName, cells, outcome) ==
  IF hookName = "useQuery"
    THEN IF outcome.ok THEN QueryThen(cells, outcome.data)
                       ELSE QueryCatch(cells, outcome.error)
    ELSE IF outcome.ok THEN MutationThen(cells, outcome.data)
                       ELSE MutationCatch(cells, outcome.error)

\* Number of router.push among the effects of a step.
Pushes(done) == Cardinality({i \in DOMAIN done : done[i] = "router.push(/signin)"})

----------------
(* The state machine *)

NoArgs == [user |-> Undefined, payload |-> UndefinedPayload]
NoBehaviour == [kind |-> "none"]

Call(step, outcome) == [step |-> step, outcome |-> outcome]

\* Number of calls of `step` made for the request.
Calls(step) == Cardinality({i \in DOMAIN trace : trace[i].step = step})
handlerCalls == Calls("handler")
lookupCalls == Calls("findUserFromApiKey")
trackCalls == Calls("updateApiKeyUsage")

----------------------------------------------------------------------------
(* The form hooks of src/form.ts: data and what they compute *)

\* Number of onChange calls and of onSubmit calls on one form.
MaxChanges == 3
MaxSubmits == 2

FormHooks == {"useForm", "createFormHook"}
Fields == {"name", "email"}

\* What an input hands to its onChange: null, a name, an e-mail address.
Values == {Null, "ann", "a@b.c"}

\* The initialData of the component: empty or prefilled.
InitialDatas == [Fields -> {Null, "a@b.c"}]

\* The zod issues of the schema {name: z.string(), email:
\* z.string().email()} for one field.
IssueOf(key, value) ==
  IF value = Null
    THEN [path |-> key, code |-> "invalid_type", received |-> "null",
          message |-> "Expected string, received null"]
    ELSE [path |-> key, code |-> "invalid_string", received |-> "string",
          message |-> "Invalid email"]

Accepts(key, value) ==
  IF key = "email" THEN value = "a@b.c" ELSE value # Null

\* schema.safeParse(data)
FormSafeParse(data) ==
  [success |-> \A k \in Fields : Accepts(k, data[k]),
   data |-> data,
   issues |-> {IssueOf(k, data[k]) : k \in {f \in Fields :
                                              ~Accepts(f, data[f])}}]

issueToLabel(issue) ==
  IF issue.code = "invalid_type" /\ issue.received = "null"
    THEN "This field is required"
    ELSE issue.message

emptyErrors == [k \in Fields |-> Undefined]

\* Object.fromEntries(issues.map((issue) => [issue.path, label])): the
\* fields without issue have no entry.
IssueErrors(issues) ==
  [k \in Fields |->
     IF \E i \in issues : i.path = k
       THEN issueToLabel(CHOOSE i \in issues : i.path = k)
       ELSE Undefined]

\* The onChange of one field: setData({ ...data, [key]: value }) with the
\* data of the render that created it.
onChange(data, key, value) == [data EXCEPT ![key] = value]

\* What onSubmit does: returns nothing, or a promise.
SubmitKinds == {"void", "promise"}

\* The rejection of an onSubmit promise: an Error with this message.
SubmitFailure == "Email already used"

\* .catch: createFormHook stores the error, useForm its message.
SubmitErrorOf(hookName, message) ==
  IF hookName = "useForm" THEN message ELSE "Error: " \o message

InitialForm(initial) ==
  [data |-> initial, errors |-> emptyErrors, submitting |-> FALSE,
   submitError |-> Null]

\* No form is mounted.
FormIdle ==
  /\ formHook = "useForm"
  /\ initialData = [k \in Fields |-> Null]
  /\ form = InitialForm(initialData)
  /\ formView = form
  /\ pending = 0
  /\ submitted = <<>>
  /\ lastChange = initialData
  /\ changes = 0

\* No component is mounted.
ClientIdle ==
  /\ hook = "useMutation"
  /\ target = "/api/a"
  /\ state = InitialState
  /\ view = InitialState
  /\ inflight = NoneInflight
  /\ invoked = 0
  /\ transportCalls = 0
  /\ redirects = 0
  /\ unauthorized = 0
  /\ refused = 0
  /\ last = NoCall
  /\ effects = <<>>

Init ==
  /\ cfg \in Configs
  /\ pc = "idle"
  /\ served = 0
  /\ req = NoRequest
  /\ user = Null
  /\ candidate = EmptyObj
  /\ behaviour = NoBehaviour
  /\ handlerArgs = NoArgs
  /\ result = NoResult
  /\ response = NoResponse
  /\ sent = 0
  /\ logged = {}
  /\ trace = <<>>
  /\ ClientIdle
  /\ FormIdle

\* A request arrives.  The pages router gives every verb to handle; the app
\* router calls the wrapper exported for the verb.
Receive ==
  /\ UNCHANGED <<clientVars, formVars>>
  /\ pc = "idle"
  /\ served < MaxRequests
  /\ \E request \in Requests :
       /\ cfg.variant = "app" => request.method \in cfg.endpoints
       /\ req' = request
  /\ pc' = IF cfg.variant = "legacy" THEN "handle" ELSE cfg.wrapper
  /\ UNCHANGED <<cfg, served, user, candidate, behaviour, handlerArgs,
                 result, response, sent, logged, trace>>

\* handle, up to the await of the endpoint: the verb's handler is called, or
\* the 405 is sent.
Handle ==
  /\ UNCHANGED <<clientVars, formVars>>
  /\ pc = "handle"
  /\ trace' = Append(trace, Call("handle", req.method))
  /\ IF HasEndpoint(req.method, cfg.endpoints)
       THEN /\ pc' = cfg.wrapper
            /\ UNCHANGED <<served, response, sent>>
       ELSE /\ response' = WrongMethod
            /\ sent' = sent + 1
            /\ pc' = "done"
            /\ served' = served + 1
  /\ UNCHANGED <<cfg, req, user, candidate, behaviour, handlerArgs, result,
                 logged>>

\* authentifiedGenerator / authentified, up to its first await.
Authentified ==
  /\ UNCHANGED <<clientVars, formVars>>
  /\ pc = "authentified"
  /\ LET d == Authentify(cfg.variant, req)
     IN /\ pc' = d.next
        /\ result' = d.result
        /\ user' = d.user
  /\ trace' = Append(trace, Call("authentified", pc'))
  /\ UNCHANGED <<cfg, served, req, candidate, behaviour, handlerArgs,
                 response, sent, logged>>

\* await findUserFromApiKey(apiKey) settles.
Lookup ==
  /\ UNCHANGED <<clientVars, formVars>>
  /\ pc = "lookup"
  /\ \E outcome \in LookupOutcomes :
       LET d == AfterLookup(outcome, cfg.track)
       IN /\ pc' = d.next
          /\ result' = d.result
          /\ user' = d.user
          /\ logged' = IF outcome = "throws"
                         THEN logged \cup {RawLookupError}
                         ELSE logged
          /\ trace' = Append(trace, Call("findUserFromApiKey", outcome))
  /\ UNCHANGED <<cfg, served, req, candidate, behaviour, handlerArgs,
                 response, sent>>

\* await updateApiKeyUsage(apiKey) settles.
Track ==
  /\ UNCHANGED <<clientVars, formVars>>
  /\ pc = "track"
  /\ \E outcome \in TrackOutcomes :
       LET d == AfterTrack(outcome, user)
       IN /\ pc' = d.next
          /\ result' = d.result
          /\ user' = d.user
          /\ logged' = IF outcome = "throws"
                         THEN logged \cup {RawTrackError}
                         ELSE logged
          /\ trace' = Append(trace, Call("updateApiKeyUsage", outcome))
  /\ UNCHANGED <<cfg, served, req, candidate, behaviour, handlerArgs,
                 response, sent>>

\* visitor: validation, the optional session user, the call of the handler.
\* Wrapped by authentified, the handler is (payload) => handler(user, payload).
Visitor ==
  /\ UNCHANGED <<clientVars, formVars>>
  /\ pc = "visitor"
  /\ candidate' = IF cfg.validator THEN Candidate(cfg.variant, req)
                                   ELSE candidate
  /\ LET v == Validate(cfg.variant, cfg.validator, req)
         u == VisitorUser(cfg.variant, req)
         entered == Append(trace, Call("visitor",
                      IF cfg.validator THEN "safeParse" ELSE "no validator"))
     IN IF ~v.success
          THEN /\ result' = v.error
               /\ pc' = "respond"
               /\ trace' = entered
               /\ UNCHANGED <<behaviour, handlerArgs>>
          ELSE IF ~u.ok
            THEN /\ result' = ThrowInVisitor(cfg.variant, cfg.wrapper,
                                             RawJwtError)
                 /\ pc' = "respond"
                 /\ trace' = Append(entered, Call("jwt.read", "throws"))
                 /\ UNCHANGED <<behaviour, handlerArgs>>
            ELSE
              /\ handlerArgs' =
                   [user |-> IF cfg.wrapper = "authentified" THEN user
                                                             ELSE u.user,
                    payload |-> v.payload]
              /\ \E b \in HandlerBehaviours :
                   /\ behaviour' = b
                   /\ trace' = Append(entered, Call("handler", b.kind))
                   /\ IF b.kind = "throws"
                        THEN /\ result' = ThrowInVisitor(cfg.variant,
                                            cfg.wrapper, RawHandlerError)
                             /\ pc' = "respond"
                        ELSE /\ pc' = "handler"
                             /\ UNCHANGED result
  /\ UNCHANGED <<cfg, served, req, user, response, sent, logged>>

\* The promise the handler returned settles.  Nothing between the handler
\* and the one who serializes awaits it inside a try, so a rejection goes
\* through the wrappers as it is.
HandlerSettles ==
  /\ UNCHANGED <<clientVars, formVars>>
  /\ pc = "handler"
  /\ result' = IF behaviour.kind = "rejects" THEN Thrown(RawHandlerError)
                                             ELSE behaviour.value
  /\ pc' = "respond"
  /\ UNCHANGED <<cfg, served, req, user, candidate, behaviour, handlerArgs,
                 response, sent, logged, trace>>

\* The wrapper's outcome becomes the response: handle after its await
\* (legacy), the wrapper's own resultToResponse (app).
Respond ==
  /\ UNCHANGED <<clientVars, formVars>>
  /\ pc = "respond"
  /\ response' = ResponseFor(cfg.variant, result)
  /\ sent' = IF response' = Uncaught THEN sent ELSE sent + 1
  /\ logged' = IF result.tag = "thrown" /\ cfg.variant = "legacy"
                 THEN logged \cup {result.error}
                 ELSE logged
  /\ pc' = "done"
  /\ served' = served + 1
  /\ UNCHANGED <<cfg, req, user, candidate, behaviour, handlerArgs, result,
                 trace>>

\* The request is over: what was kept for it is dropped.
Release ==
  /\ UNCHANGED <<clientVars, formVars>>
  /\ pc = "done"
  /\ pc' = "idle"
  /\ req' = NoRequest
  /\ user' = Null
  /\ candidate' = EmptyObj
  /\ behaviour' = NoBehaviour
  /\ handlerArgs' = NoArgs
  /\ result' = NoResult
  /\ response' = NoResponse
  /\ sent' = 0
  /\ logged' = {}
  /\ trace' = <<>>
  /\ UNCHANGED <<cfg, served>>

Next ==
  \/ Receive
  \/ Handle
  \/ Authentified
  \/ Lookup
  \/ Track
  \/ Visitor
  \/ HandlerSettles
  \/ Respond
  \/ Release

Spec == Init /\ [][Next]_vars

----------------------------------------------------------------------------
(* The client hooks: the state machine of one hook instance *)

\* No request is being served.
ServerIdle ==
  /\ cfg = [variant |-> "legacy", wrapper |-> "visitor", validator |-> FALSE,
            track |-> FALSE, endpoints |-> {"GET"}]
  /\ pc = "idle"
  /\ served = 0
  /\ req = NoRequest
  /\ user = Null
  /\ candidate = EmptyObj
  /\ behaviour = NoBehaviour
  /\ handlerArgs = NoArgs
  /\ result = NoResult
  /\ response = NoResponse
  /\ sent = 0
  /\ logged = {}
  /\ trace = <<>>

\* A component has rendered once with useQuery(url) or useMutation(url).
HooksInit ==
  /\ ServerIdle
  /\ FormIdle
  /\ hook \in Hooks
  /\ target = "/api/a"
  /\ state = InitialState
  /\ view = InitialState
  /\ inflight = NoneInflight
  /\ invoked = 0
  /\ transportCalls = 0
  /\ redirects = 0
  /\ unauthorized = 0
  /\ refused = 0
  /\ last = NoCall
  /\ effects = <<>>

\* api(url, ...) is issued: one more transport call in flight.
Issue(url) ==
  /\ inflight' = [inflight EXCEPT ![url] = @ + 1]
  /\ transportCalls' = transportCalls + 1
  /\ invoked' = invoked + 1

\* useQuery: the effect of the first render runs `call`.
Mount ==
  /\ hook = "useQuery"
  /\ invoked = 0
  /\ Issue(target)
  /\ effects' = <<"api">>
  /\ UNCHANGED <<serverVars, formVars, hook, target, state, view, redirects,
                 unauthorized, refused, last>>

\* useQuery: the consumer runs the `call` of the last render again.
Refetch ==
  /\ hook = "useQuery"
  /\ invoked >= 1
  /\ invoked < MaxInvokes
  /\ Issue(target)
  /\ effects' = <<"api">>
  /\ UNCHANGED <<serverVars, formVars, hook, target, state, view, redirects,
                 unauthorized, refused, last>>

\* TargetChange with the calls for the old url cancelled.
TargetChangeCancels ==
  /\ hook = "useQuery"
  /\ invoked >= 1
  /\ invoked < MaxInvokes
  /\ \E url \in Urls \ {target} :
       /\ target' = url
       /\ inflight' = [NoneInflight EXCEPT ![url] = inflight[url] + 1]
       /\ transportCalls' = transportCalls + 1
       /\ invoked' = invoked + 1
  /\ view' = state
  /\ effects' = <<"api">>
  /\ UNCHANGED <<serverVars, formVars, hook, state, redirects, unauthorized, refused,
                 last>>

\* useQuery: the component renders with another url; the effect keyed on
\* [url] runs the new `call`.  Nothing is done about the calls in flight.
TargetChange ==
  /\ hook = "useQuery"
  /\ invoked >= 1
  /\ invoked < MaxInvokes
  /\ \E url \in Urls \ {target} :
       /\ target' = url
       /\ Issue(url)
  /\ view' = state
  /\ effects' = <<"api">>
  /\ UNCHANGED <<serverVars, formVars, hook, state, redirects, unauthorized, refused,
                 last>>

\* useMutation: the consumer runs the `call` of the last render.  The guard
\* reads the loading of that render; past it, setLoading(true), then the
\* url and the body are computed (which may throw) and api is called.
Invoke ==
  /\ hook = "useMutation"
  /\ invoked < MaxInvokes
  /\ IF MutationGuard(view)
       THEN /\ refused' = refused + 1
            /\ invoked' = invoked + 1
            /\ effects' = <<"Promise.reject">>
            /\ UNCHANGED <<state, inflight, transportCalls>>
       ELSE /\ state' = [state EXCEPT !.loading = TRUE]
            /\ \E prepared \in BOOLEAN :
                 IF prepared
                   THEN /\ Issue(target)
                        /\ effects' = <<"setLoading", "api">>
                   ELSE /\ invoked' = invoked + 1
                        /\ effects' = <<"setLoading", "throw">>
                        /\ UNCHANGED <<inflight, transportCalls>>
            /\ UNCHANGED refused
  /\ UNCHANGED <<serverVars, formVars, hook, target, view, redirects, unauthorized,
                 last>>

\* A transport call settles and its .then or .catch runs.
Settle ==
  /\ \E url \in Urls :
       /\ inflight[url] > 0
       /\ inflight' = [inflight EXCEPT ![url] = @ - 1]
       /\ \E outcome \in Outcomes :
            LET step == Settlement(hook, state, outcome)
            IN /\ state' = step.state
               /\ effects' = step.effects
               /\ redirects' = redirects + Pushes(step.effects)
               /\ unauthorized' =
                    IF ~outcome.ok /\ outcome.error.status = 401
                      THEN unauthorized + 1 ELSE unauthorized
               /\ last' = [kind |-> IF outcome.ok THEN "ok" ELSE "failed",
                           url |-> url, error |-> outcome.error,
                           data |-> outcome.data, promise |-> step.promise]
  /\ UNCHANGED <<serverVars, formVars, hook, target, view, invoked, transportCalls,
                 refused>>

\* React renders the component again after a cell changed.
Render ==
  /\ view # state
  /\ view' = state
  /\ UNCHANGED <<serverVars, formVars, hook, target, state, inflight, invoked,
                 transportCalls, redirects, unauthorized, refused, last,
                 effects>>

HooksNext ==
  \/ Mount
  \/ Refetch
  \/ TargetChange
  \/ Invoke
  \/ Settle
  \/ Render

HooksSpec == HooksInit /\ [][HooksNext]_vars

\* What the component sees: the tuple of the last render.
Exposed ==
  IF hook = "useQuery" THEN useQueryResult(view) ELSE useMutationResult(view)

----------------------------------------------------------------------------
(* The form hooks: the state machine of one form *)

\* A component has rendered once with useForm or the hook createFormHook
\* returned.
FormInit ==
  /\ ServerIdle
  /\ ClientIdle
  /\ formHook \in FormHooks
  /\ initialData \in InitialDatas
  /\ form = InitialForm(initialData)
  /\ formView = form
  /\ pending = 0
  /\ submitted = <<>>
  /\ lastChange = initialData
  /\ changes = 0

\* An input calls the onChange of the last render.
Change ==
  /\ changes < MaxChanges
  /\ changes' = changes + 1
  /\ \E key \in Fields, value \in Values :
       /\ form' = [form EXCEPT !.data = onChange(formView.data, key, value)]
       /\ lastChange' = [lastChange EXCEPT ![key] = value]
  /\ UNCHANGED <<serverVars, clientVars, formHook, initialData, formView,
                 pending, submitted>>

\* The form is submitted: the `submit` of the last render runs.
Submit ==
  /\ Len(submitted) < MaxSubmits
  /\ LET validation == FormSafeParse(formView.data)
     IN IF validation.success
          THEN /\ submitted' = Append(submitted, validation.data)
               /\ \E kind \in SubmitKinds :
                    IF kind = "promise"
                      THEN /\ form' = [form EXCEPT !.errors = emptyErrors,
                                                   !.submitting = TRUE,
                                                   !.submitError = Null]
                           /\ pending' = pending + 1
                      ELSE /\ form' = [form EXCEPT !.errors = emptyErrors]
                           /\ UNCHANGED pending
          ELSE /\ form' = [form EXCEPT
                             !.errors = IssueErrors(validation.issues)]
               /\ UNCHANGED <<pending, submitted>>
  /\ UNCHANGED <<serverVars, clientVars, formHook, initialData, formView,
                 lastChange, changes>>

\* An onSubmit promise settles: .catch on a rejection, then .finally.
SubmitSettles ==
  /\ pending > 0
  /\ pending' = pending - 1
  /\ \E rejected \in BOOLEAN :
       form' = [form EXCEPT
                  !.submitError =
                     IF rejected THEN SubmitErrorOf(formHook, SubmitFailure)
                                 ELSE @,
                  !.submitting = FALSE]
  /\ UNCHANGED <<serverVars, clientVars, formHook, initialData, formView,
                 submitted, lastChange, changes>>

\* React renders the component again after a cell changed.
FormRender ==
  /\ formView # form
  /\ formView' = form
  /\ UNCHANGED <<serverVars, clientVars, formHook, initialData, form,
                 pending, submitted, lastChange, changes>>

FormNext ==
  \/ Change
  \/ Submit
  \/ SubmitSettles
  \/ FormRender

FormSpec == FormInit /\ [][FormNext]_vars

----------------------------------------------------------------------------
(* Vocabulary of the properties *)

\* The request carries no session credential: no jwt cookie, or an empty one.
NoSession == req.cookie \in {Undefined, ""}

\* The request carries a bearer key.
BearerKey == req.authorization = "Bearer k1"

\* The wrapper registered for the request's verb has been called.
WrapperReached ==
  /\ pc \notin {"idle", "handle"}
  /\ cfg.variant = "legacy" => req.method \in cfg.endpoints

\* The response sent is `status` with the JSON body {message}.
Answered(status, message) ==
  response = [status |-> status, body |-> [message |-> message]]

\* visitor ran with a validator, on the object in `candidate`.
Validated == cfg.validator /\ Calls("visitor") = 1

\* The schema of the registration accepts the object.
SchemaAccepts(object) == {"id", "name"} \subseteq DOMAIN object

\* Body, then query parameters, then route parameters, the later winning.
SpecMerge ==
  [k \in (DOMAIN req.body) \cup (DOMAIN req.search) \cup (DOMAIN req.params)
     |-> IF k \in DOMAIN req.params THEN req.params[k]
         ELSE IF k \in DOMAIN req.search THEN req.search[k]
         ELSE req.body[k]]

\* The payload the request carries passes validation, or there is no schema.
PayloadPasses == ~cfg.validator \/ SchemaAccepts(Candidate(cfg.variant, req))

Happened(step, outcome) ==
  \E i \in DOMAIN trace : trace[i] = Call(step, outcome)

----------------------------------------------------------------------------
(* Properties *)

\* C1: a request with neither a session credential nor a bearer key to an
\* authenticated endpoint is answered 401 and the handler is never invoked,
\* whatever the method and the payload.
C1_NoCredentialIs401 ==
  (cfg.wrapper = "authentified" /\ WrapperReached /\ NoSession /\ ~BearerKey)
    => /\ handlerCalls = 0
       /\ pc \notin {"visitor", "handler", "lookup", "track"}
       /\ pc = "done" =>
            /\ result.tag = "err"
            /\ result.error.code = 401
            /\ response.status = 401

C1_Witness ==
  /\ pc = "done"
  /\ cfg.wrapper = "authentified" /\ WrapperReached
  /\ req.cookie = Undefined /\ req.authorization = "Basic abc"
  /\ req.method = "POST" /\ req.body # EmptyObj
  /\ response.status = 401

\* C2: a session credential that does not decode gives 401 with the session
\* message on an authenticated endpoint, also when a bearer key is there; the
\* lookup, the usage tracking and the handler are never invoked.
C2_BadSessionWinsOverKey ==
  (cfg.wrapper = "authentified" /\ WrapperReached /\ req.cookie = "expiredJwt")
    => /\ lookupCalls = 0
       /\ trackCalls = 0
       /\ handlerCalls = 0
       /\ pc = "done" =>
            Answered(401, "Your session has expired. Please signin again.")

C2_Witness ==
  /\ pc = "done"
  /\ cfg.variant = "legacy" /\ cfg.wrapper = "authentified" /\ cfg.track
  /\ WrapperReached
  /\ req.cookie = "expiredJwt" /\ BearerKey
  /\ response.status = 401

\* C3: when the object given to the validator fails the schema, the answer
\* is 400 with the validator's message and the handler is never invoked, on
\* a visitor endpoint and on an authenticated one reached with an identity.
C3_InvalidPayloadIs400 ==
  (Validated /\ ~SchemaAccepts(candidate))
    => /\ handlerCalls = 0
       /\ pc # "handler"
       /\ pc = "done" => Answered(400, ZodMessage(candidate))

C3_Witness ==
  /\ pc = "done"
  /\ Validated /\ ~SchemaAccepts(candidate)
  /\ cfg.wrapper = "authentified" /\ user = KeyUser
  /\ response.status = 400

\* C4: handle answers 405 {message: "Wrong method"} for a verb without a
\* registered handler, whatever the payload and the credentials, and calls
\* no handler.
C4_WrongMethodIs405 ==
  (cfg.variant = "legacy" /\ pc \notin {"idle", "handle"}
     /\ req.method \notin cfg.endpoints)
    => /\ pc = "done"
       /\ Answered(405, "Wrong method")
       /\ sent = 1
       /\ handlerCalls = 0
       /\ Calls("authentified") = 0 /\ Calls("visitor") = 0

C4_Witness ==
  /\ pc = "done"
  /\ cfg.variant = "legacy" /\ cfg.endpoints = {"GET", "POST"}
  /\ req.method = "DELETE"
  /\ req.cookie = "validJwt" /\ SchemaAccepts(SpecMerge)
  /\ response.status = 405

\* C5: a handler that throws or whose promise rejects gives, through handle,
\* 500 {message: "Something wrong happened"}, wrapped by visitor or by the
\* authenticated wrapper.
C5_HandlerFaultIs500 ==
  (cfg.variant = "legacy" /\ pc = "done"
     /\ behaviour.kind \in {"throws", "rejects"})
    => Answered(500, "Something wrong happened")

\* C6: the response is determined by the Result alone: Ok(data) is 200 with
\* data as body, Err(error) is error.code with {message: error.message};
\* one response per request.
C6_ResponseFromResult ==
  /\ sent <= 1
  /\ (pc = "done" /\ behaviour.kind = "returns") => result = behaviour.value
  /\ (pc = "done" /\ result.tag = "ok")
       => sent = 1 /\ response = [status |-> 200, body |-> result.data]
  /\ (pc = "done" /\ result.tag = "err")
       => /\ sent = 1
          /\ response = [status |-> result.error.code,
                         body |-> [message |-> result.error.message]]

C6_Witness ==
  /\ pc = "done"
  /\ behaviour.kind = "returns"
  /\ behaviour.value = Err(404, "Not found")
  /\ response.status = 404

\* C7: the object given to the validator is body, then query parameters,
\* then route parameters, the later winning on a colliding key.
C7_MergeOrder == Validated => candidate = SpecMerge

\* C8: without a session credential and with a bearer key the lookup
\* accepts, the handler is invoked exactly once with the key identity, when
\* the payload passes validation.
C8_KeyIdentityReachesHandler ==
  (cfg.wrapper = "authentified" /\ WrapperReached /\ pc = "done"
     /\ NoSession /\ BearerKey /\ PayloadPasses
     /\ ~Happened("findUserFromApiKey", "throws")
     /\ ~Happened("findUserFromApiKey", "null"))
    => handlerCalls = 1 /\ handlerArgs.user = KeyUser

\* C9: without a session credential, a bearer key whose lookup throws gives
\* 401 "An error occured during authentification."; the lookup's error is
\* logged and not in the response, and the handler is never invoked.
C9_LookupFailureIs401 ==
  (cfg.wrapper = "authentified" /\ WrapperReached /\ NoSession /\ BearerKey
     /\ Happened("findUserFromApiKey", "throws"))
    => /\ handlerCalls = 0
       /\ pc \notin {"visitor", "handler", "track"}
       /\ RawLookupError \in logged
       /\ pc = "done" =>
            /\ Answered(401, "An error occured during authentification.")
            /\ response.body.message # RawLookupError

C9_Witness ==
  /\ pc = "done"
  /\ cfg.wrapper = "authentified" /\ WrapperReached
  /\ NoSession /\ BearerKey
  /\ Happened("findUserFromApiKey", "throws")
  /\ response.status = 401

\* C10: on a visitor endpoint, a request whose payload passes validation has
\* its handler invoked exactly once, with the session identity when the
\* session credential decodes and with no identity otherwise; a missing or
\* bad credential is never an error.
C10_VisitorNeverRequiresIdentity ==
  (cfg.wrapper = "visitor" /\ WrapperReached /\ pc = "done" /\ PayloadPasses)
    => /\ handlerCalls = 1
       /\ handlerArgs.user =
            IF req.cookie = "validJwt" THEN SessionUser ELSE Undefined


\* No identity can be resolved for the request: no session credential that
\* decodes, and no lookup that returned a user.
NoIdentity ==
  req.cookie # "validJwt" /\ ~Happened("findUserFromApiKey", "user")

\* Position in `trace` of the first call of `step` (0 when there is none).
FirstCall(step) ==
  IF Calls(step) = 0 THEN 0
  ELSE CHOOSE i \in DOMAIN trace :
         /\ trace[i].step = step
         /\ \A j \in DOMAIN trace : trace[j].step = step => i <= j

\* C17: a request without any credential to an authenticated endpoint is
\* answered 401 "Please provide a mean of authentification.".
C17_NoCredentialMessage ==
  (cfg.wrapper = "authentified" /\ WrapperReached /\ pc = "done"
     /\ req.cookie = Undefined /\ req.authorization = Undefined)
    => Answered(401, "Please provide a mean of authentification.")

\* C18: on an authenticated endpoint the order is authenticate, validate,
\* invoke: without a resolvable identity the answer is 401 and the schema is
\* not evaluated, whatever the payload; the handler is invoked at most once,
\* after the authentication and the validation have succeeded.
C18_AuthenticateThenValidate ==
  (cfg.wrapper = "authentified" /\ WrapperReached)
    => /\ handlerCalls <= 1
       /\ Calls("visitor") <= 1
       /\ Calls("visitor") = 1 =>
            /\ ~NoIdentity
            /\ user \in {SessionUser, KeyUser}
            /\ 0 < FirstCall("authentified")
            /\ FirstCall("authentified") < FirstCall("visitor")
       /\ handlerCalls = 1 =>
            /\ FirstCall("visitor") < FirstCall("handler")
            /\ cfg.validator => SchemaAccepts(candidate)
            /\ handlerArgs.user = user
       /\ NoIdentity =>
            /\ Calls("visitor") = 0
            /\ candidate = EmptyObj
            /\ handlerCalls = 0
            /\ pc = "done" => response.status = 401

C18_Witness ==
  /\ pc = "done"
  /\ cfg.wrapper = "authentified" /\ WrapperReached
  /\ cfg.validator /\ ~SchemaAccepts(SpecMerge)
  /\ req.cookie = "expiredJwt"
  /\ NoIdentity
  /\ response.status = 401

\* C19: for a key whose lookup returns a user, the registered usage tracker
\* is invoked once before the handler, and whether it succeeds or fails the
\* handler is invoked with the key identity and its result is returned.
C19_TrackingIsBestEffort ==
  (cfg.wrapper = "authentified" /\ cfg.track /\ pc = "done"
     /\ Happened("findUserFromApiKey", "user") /\ PayloadPasses)
    => /\ trackCalls = 1
       /\ handlerCalls = 1
       /\ FirstCall("updateApiKeyUsage") < FirstCall("handler")
       /\ handlerArgs.user = KeyUser
       /\ behaviour.kind = "returns" => result = behaviour.value


----------------------------------------------------------------------------
(* Properties of the client hooks (HooksSpec) *)

\* The render is up to date with the cells.
Rendered == view = state

InFlight == inflight["/api/a"] + inflight["/api/b"]

Did(effect) == \E i \in DOMAIN effects : effects[i] = effect

Loading == [loading |-> TRUE, error |-> NullErr, data |-> Null]
Idle == [loading |-> FALSE, error |-> NullErr, data |-> Null]
Failed(error) == [loading |-> FALSE, error |-> error, data |-> Null]
Succeeded(data) == [loading |-> FALSE, error |-> NullErr, data |-> data]

\* C11: useMutation never has two transport calls in flight: a second invoke
\* made before the first call settles, rendered or not, issues no call.
C11_AtMostOneInFlight == hook = "useMutation" => InFlight <= 1

\* C12: an invoke made while the loading of the hook's last render is true
\* returns a rejected promise, issues no transport call, triggers no
\* redirect and leaves the cells as they are.
C12_RefusedInvokeHasNoEffect ==
  [][(hook = "useMutation" /\ invoked' = invoked + 1 /\ view.loading)
       => /\ refused' = refused + 1
          /\ effects' = <<"Promise.reject">>
          /\ transportCalls' = transportCalls
          /\ inflight' = inflight
          /\ redirects' = redirects
          /\ state' = state
          /\ last' = last]_vars

C12_Witness ==
  /\ hook = "useMutation"
  /\ refused = 1
  /\ InFlight = 1
  /\ transportCalls = 1
  /\ Exposed.loading
  /\ effects = <<"Promise.reject">>

\* C13: after a useMutation call failed with E, the hook exposes error E,
\* data null and loading false, and the promise of the call is rejected with
\* E, whatever the earlier calls gave.
C13_FailureIsExposed ==
  (hook = "useMutation" /\ last.kind = "failed")
    => /\ last.promise = [settled |-> "rejected", error |-> last.error,
                          data |-> Null]
       /\ state.error = last.error
       /\ Rendered => Exposed = Failed(last.error)

C13_Witness ==
  /\ hook = "useMutation"
  /\ last.kind = "failed" /\ last.error.status = 403
  /\ state.data = "[{id:1}]"
  /\ Rendered
  /\ Exposed.error.message = "Forbidden"

\* C14: when the call settled last succeeded with data d, the hook exposes
\* Succeeded(d), whatever the earlier calls of the instance gave.
C14_SuccessIsExposed ==
  (last.kind = "ok" /\ Truthy(last.data) /\ Rendered)
    => Exposed = Succeeded(last.data)

\* C15: a transport failure with status 401 triggers one redirect to
\* /signin, before the error is stored, and the error is stored all the
\* same; a failure with another status triggers none.
C15_RedirectOn401 ==
  /\ redirects = unauthorized
  /\ Did("setError") =>
       /\ Did("router.push(/signin)") <=> last.error.status = 401
       /\ Did("router.push(/signin)") =>
            /\ Len(effects) >= 2
            /\ effects[1] = "router.push(/signin)"
            /\ effects[2] = "setError"
       /\ Pushes(effects) <= 1
  /\ last.kind = "failed" =>
       /\ state.error = last.error
       /\ Rendered => Exposed.error = last.error

C15_Witness ==
  /\ hook = "useQuery"
  /\ last.kind = "failed" /\ last.error.status = 401
  /\ redirects = 1
  /\ Rendered
  /\ Exposed.error.status = 401

\* C16: the tuple a hook exposes is always exactly one of Loading/idle,
\* Failed and Succeeded; useQuery starts Loading, useMutation starts with
\* loading false, no error and no data.
C16_ExactlyOneVariant ==
  /\ \/ Exposed.error = NullErr /\ Exposed.data = Null
     \/ ~Exposed.loading /\ Exposed.error # NullErr /\ Exposed.data = Null
     \/ ~Exposed.loading /\ Exposed.error = NullErr /\ Exposed.data # Null
  /\ (hook = "useQuery" /\ last.kind = "none") => Exposed = Loading
  /\ (hook = "useMutation" /\ invoked = 0) => Exposed = Idle

C16_Witness ==
  /\ hook = "useMutation"
  /\ state.error # NullErr /\ state.data # Null /\ state.loading
  /\ Rendered
  /\ Exposed = Failed(state.error)

\* C20: once a call of a useQuery instance has settled, the hook exposes
\* Failed or Succeeded and not Loading, also while a later call is in flight.
C20_NeverLoadingAgain ==
  (hook = "useQuery" /\ last.kind # "none" /\ Rendered)
    => /\ ~Exposed.loading
       /\ Exposed.error # NullErr \/ Exposed.data # Null


\* C21: a target change of useQuery starts a call for the new url and leaves
\* the calls in flight as they are, and every response is applied when it
\* arrives, whatever the target is by then.
C21_StaleResponseIsApplied ==
  [][hook = "useQuery" =>
       /\ target' # target =>
            /\ inflight'[target] = inflight[target]
            /\ inflight'[target'] = inflight[target'] + 1
       /\ InFlight' < InFlight =>
            /\ inflight'[last'.url] = inflight[last'.url] - 1
            /\ last'.kind = "ok" => state'.data = last'.data
            /\ last'.kind = "failed" => state'.error = last'.error]_vars

\* The response for /api/a arrived after the one for /api/b: nothing is in
\* flight and the hook shows the data of the url it was given before.
C21_Witness ==
  /\ hook = "useQuery"
  /\ target = "/api/b"
  /\ InFlight = 0
  /\ last.kind = "ok" /\ last.url = "/api/a" /\ last.data = "[{id:1}]"
  /\ Rendered
  /\ Exposed = Succeeded("[{id:1}]")

\* C22: when an invoke of useMutation has started the only call in flight,
\* the hook exposes Loading until that call settles, whatever the earlier
\* invocations gave.
C22_LoadingWhileInFlight ==
  (/\ hook = "useMutation"
   /\ effects = <<"setLoading", "api">>
   /\ InFlight = 1
   /\ Rendered)
    => Exposed = Loading

\* C23: once no call of a useMutation instance is in flight, its loading
\* cell is false again.
C23_LoadingIsReleased ==
  (hook = "useMutation" /\ InFlight = 0) => ~state.loading


----------------------------------------------------------------------------
(* Properties of the form hooks (FormSpec) *)

\* C24: the submitting a form exposes is true exactly while an onSubmit
\* promise it started is pending, and onSubmit is only called with data the
\* schema accepts.
C24_SubmittingWhilePending ==
  /\ formView = form => (formView.submitting <=> pending > 0)
  /\ \A i \in DOMAIN submitted : FormSafeParse(submitted[i]).success

\* C25: the values of a form hold, for each field, the value of the last
\* onChange call for it, and the initial value if it was never changed.
C25_NoFieldUpdateLost == form.data = lastChange

====
